---- MODULE Spec2Model ----
(***************************************************************************)
(* drone-recon-ng: reconciliation of recon-ng host records with the hosts  *)
(* of a lair project (src/main.go).  The model follows main() from the     *)
(* export of the project (line 116) to the final success message (line     *)
(* 232): the host match loop, the assembly of the output host list, the    *)
(* synthesis of forced hosts, the import call and the handling of its      *)
(* response, and the report of the unmatched addresses.                    *)
(***************************************************************************)
EXTENDS Naturals, Sequences, FiniteSets

\* Bounds of the model: longest incoming host list, longest current host list.
MaxIncoming == 2
MaxCurrent == 2

\* const tool (main.go:20)
tool == "recon-ng"

\* Address and hostname strings the inputs are drawn from ("" is the empty address).
Addrs == {"", "a", "b"}
Names == {"n1", "n2"}

\* reconng.Host as main() reads it: IPAddress and Name.
IncomingRecords == [IPAddress : Addrs, Name : Names]

\* Prior remote state of a host, apart from its address: a host nothing has
\* been recorded for, and a host with every attribute set.
HostProfiles ==
    { [LongIPv4Addr |-> 0, IsFlagged |-> FALSE, LastModifiedBy |-> "", MAC |-> "",
       OS |-> "", Status |-> "", StatusMessage |-> "",
       Tags |-> << >>, Hostnames |-> << >>],
      [LongIPv4Addr |-> 7, IsFlagged |-> TRUE, LastModifiedBy |-> "nmap", MAC |-> "00:11",
       OS |-> "linux", Status |-> "lair-grey", StatusMessage |-> "seen",
       Tags |-> <<"prior">>, Hostnames |-> <<"old">>] }

\* lair.Host with the fields main() copies (lines 149-160).
MkHost(ip, p) ==
    [IPv4 |-> ip, LongIPv4Addr |-> p.LongIPv4Addr, IsFlagged |-> p.IsFlagged,
     LastModifiedBy |-> p.LastModifiedBy, MAC |-> p.MAC, OS |-> p.OS,
     Status |-> p.Status, StatusMessage |-> p.StatusMessage,
     Tags |-> p.Tags, Hostnames |-> p.Hostnames]

CurrentHostValues == { MkHost(ip, p) : ip \in Addrs, p \in HostProfiles }

\* The value of -tags after lines 111-114: no tag, or one tag.
TagLists == { << >>, <<"scan">> }

SeqsUpTo(S, n) == UNION { [1..k -> S] : k \in 0..n }

\* Every order in which a range over a map with key set S can visit the keys.
Perms(S) == { f \in [1..Cardinality(S) -> S] : \A a \in S : \E i \in DOMAIN f : f[i] = a }

VARIABLES
    recHosts,      \* recData.Hosts
    remoteHosts,   \* the hosts the remote store holds for the project
    hostTags,      \* hostTags
    forceHosts,    \* *forceHosts
    exHosts,       \* exproject.Hosts
    tagSet,        \* tagSet (its key set)
    rNotFound,     \* rNotFound
    projectHosts,  \* project.Hosts
    ri,            \* position of the outer loop of lines 129-146
    pc,            \* position of main()
    fatal,         \* which log.Fatal ended the run ("" if none)
    importCalls,   \* number of calls of c.ImportProject
    droneStatus,   \* droneRes.Status
    infoMsg,       \* the Info line of lines 220-226
    reported,      \* the addresses printed by lines 228-230
    success,       \* whether line 232 has logged success
    run,           \* 1 in the first run, 2 in a repeated run
    firstHosts,    \* project.Hosts of the first run
    firstReported  \* addresses printed by the first run

vars == << recHosts, remoteHosts, hostTags, forceHosts, exHosts, tagSet, rNotFound,
           projectHosts, ri, pc, fatal, importCalls, droneStatus, infoMsg, reported,
           success, run, firstHosts, firstReported >>

inputs == << recHosts, remoteHosts, hostTags, forceHosts >>
reportVars == << infoMsg, reported, success >>
runVars == << run, firstHosts, firstReported >>

EmptyLedger == [k \in {} |-> << >>]

\* The working state of main() when it reaches line 116.
FreshRun ==
    /\ exHosts = << >>
    /\ tagSet = {}
    /\ rNotFound = EmptyLedger
    /\ projectHosts = << >>
    /\ ri = 1
    /\ pc = "export"
    /\ fatal = ""
    /\ importCalls = 0
    /\ droneStatus = ""
    /\ infoMsg = "none"
    /\ reported = << >>
    /\ success = FALSE

Init ==
    /\ recHosts \in SeqsUpTo(IncomingRecords, MaxIncoming)
    /\ remoteHosts \in SeqsUpTo(CurrentHostValues, MaxCurrent)
    /\ hostTags \in TagLists
    /\ forceHosts \in BOOLEAN
    /\ FreshRun
    /\ run = 1
    /\ firstHosts = << >>
    /\ firstReported = << >>

\* log.Fatal: the process exits.
Die(where) ==
    /\ pc' = "fatal"
    /\ fatal' = where

\* lines 116-119
ExportProject ==
    /\ pc = "export"
    /\ \/ /\ exHosts' = remoteHosts
          /\ pc' = "match"
          /\ UNCHANGED fatal
       \/ /\ Die("export")
          /\ UNCHANGED exHosts
    /\ UNCHANGED << inputs, tagSet, rNotFound, projectHosts, ri, importCalls,
                    droneStatus, reportVars, runVars >>

\* line 133
Matches(result, h) == result.IPAddress = h.IPv4

\* line 137
NotYetTagged(ts, h) == h.IPv4 \notin ts

\* UpdateMatched with a hostname that is already listed not appended again.
UpdateMatchedDedup(h, result, tagNow) ==
    [h EXCEPT !.Hostnames = IF \E k \in DOMAIN @ : @[k] = result.Name
                            THEN @ ELSE Append(@, result.Name),
              !.LastModifiedBy = tool,
              !.Tags = IF tagNow THEN @ \o hostTags ELSE @]

\* lines 134-140: the updates of a matching host
UpdateMatched(h, result, tagNow) ==
    [h EXCEPT !.Hostnames = Append(@, result.Name),
              !.LastModifiedBy = tool,
              !.Tags = IF tagNow THEN @ \o hostTags ELSE @]

\* lines 130-142: the scan of exproject.Hosts for one incoming record
RECURSIVE ScanHosts(_, _, _, _, _)
ScanHosts(result, hosts, ts, found, i) ==
    IF i > Len(hosts)
    THEN [hosts |-> hosts, tagSet |-> ts, found |-> found]
    ELSE LET h == hosts[i] IN
         IF Matches(result, h)
         THEN ScanHosts(result,
                        [hosts EXCEPT ![i] = UpdateMatched(h, result, NotYetTagged(ts, h))],
                        ts \cup {h.IPv4}, TRUE, i + 1)
         ELSE ScanHosts(result, hosts, ts, found, i + 1)

\* Unmatched without the test of the empty address.
UnmatchedAnyAddress(found, result) == ~found

\* line 143
Unmatched(found, result) == ~found /\ result.IPAddress # ""

\* LedgerAppend with the list of the key overwritten instead of extended.
LedgerOverwrite(nf, result) ==
    [k \in DOMAIN nf \cup {result.IPAddress} |->
        IF k = result.IPAddress THEN <<result>> ELSE nf[k]]

\* line 144
LedgerAppend(nf, result) ==
    LET ip == result.IPAddress IN
    [k \in DOMAIN nf \cup {ip} |->
        IF k = ip
        THEN (IF ip \in DOMAIN nf THEN Append(nf[ip], result) ELSE <<result>>)
        ELSE nf[k]]

\* lines 129-146: one iteration of the outer loop
MatchResult ==
    /\ pc = "match"
    /\ ri <= Len(recHosts)
    /\ LET result == recHosts[ri]
           s == ScanHosts(result, exHosts, tagSet, FALSE, 1)
       IN /\ exHosts' = s.hosts
          /\ tagSet' = s.tagSet
          /\ rNotFound' = IF Unmatched(s.found, result)
                          THEN LedgerAppend(rNotFound, result)
                          ELSE rNotFound
    /\ ri' = ri + 1
    /\ UNCHANGED << inputs, projectHosts, pc, fatal, importCalls, droneStatus,
                    reportVars, runVars >>

\* OutputHost with every emitted host stamped as modified by the tool.
OutputHostStamped(h) ==
    [IPv4 |-> h.IPv4, LongIPv4Addr |-> h.LongIPv4Addr, IsFlagged |-> h.IsFlagged,
     LastModifiedBy |-> tool, MAC |-> h.MAC, OS |-> h.OS,
     Status |-> h.Status, StatusMessage |-> h.StatusMessage,
     Tags |-> hostTags, Hostnames |-> h.Hostnames]

\* lines 149-160
OutputHost(h) ==
    [IPv4 |-> h.IPv4, LongIPv4Addr |-> h.LongIPv4Addr, IsFlagged |-> h.IsFlagged,
     LastModifiedBy |-> h.LastModifiedBy, MAC |-> h.MAC, OS |-> h.OS,
     Status |-> h.Status, StatusMessage |-> h.StatusMessage,
     Tags |-> hostTags, Hostnames |-> h.Hostnames]

\* lines 148-161
AssembleHosts ==
    /\ pc = "match"
    /\ ri > Len(recHosts)
    /\ projectHosts' = projectHosts \o [i \in 1..Len(exHosts) |-> OutputHost(exHosts[i])]
    /\ pc' = "force"
    /\ UNCHANGED << inputs, exHosts, tagSet, rNotFound, ri, fatal, importCalls,
                    droneStatus, reportVars, runVars >>

\* SynthHost with the configured tags given to the new host.
SynthHostTagged(ip, results) ==
    [IPv4 |-> ip, LongIPv4Addr |-> 0, IsFlagged |-> FALSE, LastModifiedBy |-> "",
     MAC |-> "", OS |-> "", Status |-> "", StatusMessage |-> "",
     Tags |-> hostTags,
     Hostnames |-> [j \in 1..Len(results) |-> results[j].Name]]

\* lines 165-172: a lair.Host literal with IPv4 and Hostnames only
SynthHost(ip, results) ==
    [IPv4 |-> ip, LongIPv4Addr |-> 0, IsFlagged |-> FALSE, LastModifiedBy |-> "",
     MAC |-> "", OS |-> "", Status |-> "", StatusMessage |-> "",
     Tags |-> << >>,
     Hostnames |-> [j \in 1..Len(results) |-> results[j].Name]]

\* SynthesizedHosts without the test of *forceHosts.
SynthesizedHostsAlways(order) ==
    [k \in 1..Len(order) |-> SynthHost(order[k], rNotFound[order[k]])]

\* lines 163-174, for one order of the range over rNotFound
SynthesizedHosts(order) ==
    IF forceHosts
    THEN [k \in 1..Len(order) |-> SynthHost(order[k], rNotFound[order[k]])]
    ELSE << >>

\* lines 163-174: the order of a range over a map is not specified
ForceHosts ==
    /\ pc = "force"
    /\ \E order \in Perms(DOMAIN rNotFound) :
          projectHosts' = projectHosts \o SynthesizedHosts(order)
    /\ pc' = "import"
    /\ UNCHANGED << inputs, exHosts, tagSet, rNotFound, ri, fatal, importCalls,
                    droneStatus, reportVars, runVars >>

\* lines 198-202
ImportProject ==
    /\ pc = "import"
    /\ importCalls' = importCalls + 1
    /\ \/ /\ pc' = "read"
          /\ UNCHANGED fatal
       \/ Die("import")
    /\ UNCHANGED << inputs, exHosts, tagSet, rNotFound, projectHosts, ri,
                    droneStatus, reportVars, runVars >>

\* lines 206-210
ReadBody ==
    /\ pc = "read"
    /\ \/ /\ pc' = "decode"
          /\ UNCHANGED fatal
       \/ Die("read")
    /\ UNCHANGED << inputs, exHosts, tagSet, rNotFound, projectHosts, ri, importCalls,
                    droneStatus, reportVars, runVars >>

\* Rejected with the status compared in lower case.
RejectedLowerCase(status) == status = "error"

\* line 216
Rejected(status) == status = "Error"

\* lines 212-218
DecodeResponse ==
    /\ pc = "decode"
    /\ \/ /\ Die("unmarshal")
          /\ UNCHANGED droneStatus
       \/ \E status \in {"Ok", "Error"} :
             /\ droneStatus' = status
             /\ IF Rejected(status)
                THEN Die("status")
                ELSE pc' = "report" /\ UNCHANGED fatal
    /\ UNCHANGED << inputs, exHosts, tagSet, rNotFound, projectHosts, ri, importCalls,
                    reportVars, runVars >>

\* lines 220-226
InfoLine ==
    IF Cardinality(DOMAIN rNotFound) > 0
    THEN (IF forceHosts THEN "forced" ELSE "dropped")
    ELSE "none"

\* lines 220-232
Report ==
    /\ pc = "report"
    /\ infoMsg' = InfoLine
    /\ \E order \in Perms(DOMAIN rNotFound) : reported' = order
    /\ success' = TRUE
    /\ pc' = "done"
    /\ UNCHANGED << inputs, exHosts, tagSet, rNotFound, projectHosts, ri, fatal,
                    importCalls, droneStatus, runVars >>

Next ==
    \/ ExportProject
    \/ MatchResult
    \/ AssembleHosts
    \/ ForceHosts
    \/ ImportProject
    \/ ReadBody
    \/ DecodeResponse
    \/ Report

Spec == Init /\ [][Next]_vars

\* A second invocation of the program on the same report, project state and options.
RunAgain ==
    /\ run = 1
    /\ pc = "done"
    /\ run' = 2
    /\ firstHosts' = projectHosts
    /\ firstReported' = reported
    /\ exHosts' = << >>
    /\ tagSet' = {}
    /\ rNotFound' = EmptyLedger
    /\ projectHosts' = << >>
    /\ ri' = 1
    /\ pc' = "export"
    /\ fatal' = ""
    /\ importCalls' = 0
    /\ droneStatus' = ""
    /\ infoMsg' = "none"
    /\ reported' = << >>
    /\ success' = FALSE
    /\ UNCHANGED inputs

NextTwoRuns ==
    \/ Next
    \/ RunAgain

SpecTwoRuns == Init /\ [][NextTwoRuns]_vars

(***************************************************************************)
(* Notions the properties are stated with, defined from the inputs.        *)
(***************************************************************************)

\* The incoming records with address ip, in arrival order.
RecordsAt(ip) == SelectSeq(recHosts, LAMBDA r : r.IPAddress = ip)

\* The hostnames of a list of incoming records.
NamesOf(rs) == [j \in 1..Len(rs) |-> rs[j].Name]

\* Whether some current host has address ip.
IsCurrentAddr(ip) == \E i \in 1..Len(remoteHosts) : remoteHosts[i].IPv4 = ip

\* The non-empty addresses of incoming records that no current host has.
UnmatchedAddrs ==
    { a \in Addrs \ {""} : Len(RecordsAt(a)) >= 1 /\ ~IsCurrentAddr(a) }

\* The match loop is over and the current hosts have been copied to the output.
Assembled == pc \notin {"export", "match"} /\ ~(pc = "fatal" /\ fatal = "export")

\* The output host list is complete.
Emitted == Assembled /\ pc # "force"

\* The positions of the output host list after those of the current hosts.
NewPositions == (Len(remoteHosts) + 1)..Len(projectHosts)

\* A host with only its address and hostnames set.
BareHost(ip, names) ==
    [IPv4 |-> ip, LongIPv4Addr |-> 0, IsFlagged |-> FALSE, LastModifiedBy |-> "",
     MAC |-> "", OS |-> "", Status |-> "", StatusMessage |-> "",
     Tags |-> << >>, Hostnames |-> names]

\* C1: a current host with a non-empty address that N >= 1 incoming records
\* have is emitted with its prior hostnames followed by the N incoming
\* hostnames in arrival order, and with exactly the configured tag list.
C1_MatchedHostMerged ==
    Assembled =>
        \A i \in 1..Len(remoteHosts) :
            LET h == remoteHosts[i] IN
            (h.IPv4 # "" /\ Len(RecordsAt(h.IPv4)) >= 1) =>
                /\ i \in DOMAIN projectHosts
                /\ projectHosts[i].Hostnames = h.Hostnames \o NamesOf(RecordsAt(h.IPv4))
                /\ projectHosts[i].Tags = hostTags

\* Two records with the same hostname matched a host that had tags and a hostname.
C1_Witness ==
    /\ pc = "done"
    /\ hostTags # << >>
    /\ \E i \in 1..Len(remoteHosts) :
          /\ remoteHosts[i].IPv4 # ""
          /\ remoteHosts[i].Tags # << >>
          /\ remoteHosts[i].Hostnames # << >>
          /\ Len(RecordsAt(remoteHosts[i].IPv4)) = 2
          /\ recHosts[1].Name = recHosts[2].Name
          /\ Len(projectHosts[i].Hostnames) = 3

\* C2 (state): after the match loop every incoming record with a non-empty
\* address that no current host has is in the ledger under its address, the
\* records of one address in arrival order.
C2_LedgerHoldsUnmatched ==
    Assembled =>
        \A j \in 1..Len(recHosts) :
            LET a == recHosts[j].IPAddress IN
            (a # "" /\ ~IsCurrentAddr(a)) =>
                /\ a \in DOMAIN rNotFound
                /\ rNotFound[a] = RecordsAt(a)

\* C2 (step): processing such a record leaves the hostnames, the tags and the
\* last-modified-by marker of every current host as they were.
C2_UnmatchedStep ==
    (/\ pc = "match"
     /\ ri <= Len(recHosts)
     /\ recHosts[ri].IPAddress # ""
     /\ \A i \in 1..Len(exHosts) : exHosts[i].IPv4 # recHosts[ri].IPAddress)
    => /\ Len(exHosts') = Len(exHosts)
       /\ \A i \in 1..Len(exHosts) :
             /\ exHosts'[i].Hostnames = exHosts[i].Hostnames
             /\ exHosts'[i].Tags = exHosts[i].Tags
             /\ exHosts'[i].LastModifiedBy = exHosts[i].LastModifiedBy

\* C2: an incoming record with a non-empty address that matches no current
\* host ends in the ledger under its address, in arrival order, and changes
\* no current host.
C2_UnmatchedRecorded == []C2_LedgerHoldsUnmatched /\ [][C2_UnmatchedStep]_vars

\* Two different records of one unmatched address, beside a current host.
C2_Witness ==
    /\ pc = "done"
    /\ Len(exHosts) >= 1
    /\ \E a \in DOMAIN rNotFound :
          /\ Len(rNotFound[a]) = 2
          /\ rNotFound[a][1] # rNotFound[a][2]

\* C3: every current host is emitted once, in the order of the current host
\* list and before any new host, with the configured tag list and its
\* pass-through attributes; its last-modified-by marker changes, to the tool
\* identifier, only if an incoming record matched it.
C3_CurrentHostsEmitted ==
    Assembled =>
        /\ Len(projectHosts) >= Len(remoteHosts)
        /\ \A i \in 1..Len(remoteHosts) :
              LET h == remoteHosts[i]
                  o == projectHosts[i]
              IN /\ o.IPv4 = h.IPv4
                 /\ o.Tags = hostTags
                 /\ o.MAC = h.MAC
                 /\ o.OS = h.OS
                 /\ o.Status = h.Status
                 /\ o.StatusMessage = h.StatusMessage
                 /\ o.IsFlagged = h.IsFlagged
                 /\ o.LastModifiedBy # h.LastModifiedBy =>
                       (o.LastModifiedBy = tool /\ Len(RecordsAt(h.IPv4)) >= 1)
        /\ \A k \in NewPositions : ~IsCurrentAddr(projectHosts[k].IPv4)

\* A tagged current host that nothing matched is emitted, with no configured
\* tag, beside a matched host and before a new host.
C3_Witness ==
    /\ pc = "done"
    /\ hostTags = << >>
    /\ NewPositions # {}
    /\ \E i, j \in 1..Len(remoteHosts) :
          /\ remoteHosts[i].Tags # << >>
          /\ Len(RecordsAt(remoteHosts[i].IPv4)) = 0
          /\ projectHosts[i].Tags = << >>
          /\ projectHosts[i].LastModifiedBy = "nmap"
          /\ Len(RecordsAt(remoteHosts[j].IPv4)) >= 1
          /\ projectHosts[j].LastModifiedBy = tool

C5_HostCount ==
    Emitted =>
        /\ Len(projectHosts) =
              Len(remoteHosts) + (IF forceHosts THEN Cardinality(UnmatchedAddrs) ELSE 0)
        /\ DOMAIN rNotFound = UnmatchedAddrs

\* Without the force option two distinct addresses are unmatched and no host is added.
C5_Witness ==
    /\ pc = "done"
    /\ ~forceHosts
    /\ Cardinality(DOMAIN rNotFound) = 2
    /\ Len(remoteHosts) >= 1
    /\ Len(projectHosts) = Len(remoteHosts)

\* Whether the output has a new host with address a.
IsSynthesized(a) == \E k \in NewPositions : projectHosts[k].IPv4 = a

\* C6 (as stated): an address is the address of a new host if and only if the
\* force option is enabled and at least one incoming record had that address.
C6_AsStated ==
    Emitted =>
        \A a \in Addrs :
            IsSynthesized(a) <=> (forceHosts /\ Len(RecordsAt(a)) >= 1)

\* C6 (amended): an address is the address of a new host if and only if the
\* force option is enabled, the address is not empty, at least one incoming
\* record had that address and no current host has it.
C6_LedgerConsistent ==
    Emitted =>
        \A a \in Addrs :
            IsSynthesized(a) <=>
                (/\ forceHosts
                 /\ a # ""
                 /\ Len(RecordsAt(a)) >= 1
                 /\ ~IsCurrentAddr(a))

\* With the force option, one record was unmatched and one had an empty address.
C6_Witness ==
    /\ pc = "done"
    /\ forceHosts
    /\ ~IsCurrentAddr("")
    /\ Len(RecordsAt("")) >= 1
    /\ \E a \in Addrs : IsSynthesized(a)

\* C7 (step): processing an incoming record with an empty address changes no
\* current host, no tag guard and no ledger entry.
C7_EmptyAddressStep ==
    (/\ pc = "match"
     /\ ri <= Len(recHosts)
     /\ recHosts[ri].IPAddress = "")
    => /\ exHosts' = exHosts
       /\ tagSet' = tagSet
       /\ rNotFound' = rNotFound

\* C7 (state): the empty address is no key of the ledger, no address of a new
\* host and no reported address.
C7_EmptyAddressAbsent ==
    /\ "" \notin DOMAIN rNotFound
    /\ \A k \in NewPositions : Assembled => projectHosts[k].IPv4 # ""
    /\ \A k \in DOMAIN reported : reported[k] # ""

\* C7: an incoming record with an empty address is dropped whatever the
\* current host list is: it matches no current host, is not added to the
\* ledger, and yields no new host and no reported address.
C7_EmptyAddressDropped == []C7_EmptyAddressAbsent /\ [][C7_EmptyAddressStep]_vars

\* C8: two runs on the same incoming hosts, current hosts, tags and force
\* option emit the same output host list and report the unmatched addresses
\* in the same order.
C8_Deterministic ==
    (run = 2 /\ pc = "done") =>
        /\ projectHosts = firstHosts
        /\ reported = firstReported

\* C9: a failed export ends the run before any merge or import; a failed
\* import, an unreadable or undecodable response or a response of status
\* "Error" ends it before the report and the success message; success is
\* logged only after a successful export and import and a response that is
\* not an error; the import is called at most once.
C9_FailuresAreFatal ==
    /\ importCalls <= 1
    /\ fatal # "" => (pc = "fatal" /\ ~success /\ reported = << >> /\ infoMsg = "none")
    /\ fatal = "export" =>
          (/\ importCalls = 0
           /\ exHosts = << >>
           /\ projectHosts = << >>
           /\ tagSet = {}
           /\ DOMAIN rNotFound = {})
    /\ fatal \in {"import", "read", "unmarshal", "status"} => importCalls = 1
    /\ droneStatus = "Error" => (~success /\ pc = "fatal" /\ fatal = "status")
    /\ (success \/ reported # << >> \/ infoMsg # "none") =>
          (/\ pc = "done"
           /\ fatal = ""
           /\ importCalls = 1
           /\ droneStatus = "Ok"
           /\ Len(projectHosts) >= Len(remoteHosts))

\* The response had status "Error" while there were unmatched addresses to report.
C9_Witness ==
    /\ pc = "fatal"
    /\ fatal = "status"
    /\ droneStatus = "Error"
    /\ DOMAIN rNotFound # {}
    /\ importCalls = 1

\* C10: when several current hosts share an address that incoming records
\* have, each of them has received every appended hostname and the tag update
\* of line 139 by the end of the match loop.
C10_EveryHostUpdated ==
    Assembled =>
        \A i \in 1..Len(exHosts) :
            ((\E j \in 1..Len(exHosts) : j # i /\ exHosts[j].IPv4 = exHosts[i].IPv4)
             /\ Len(RecordsAt(exHosts[i].IPv4)) >= 1) =>
                /\ exHosts[i].Hostnames =
                      remoteHosts[i].Hostnames \o NamesOf(RecordsAt(exHosts[i].IPv4))
                /\ exHosts[i].Tags = remoteHosts[i].Tags \o hostTags

====
